---- MODULE Spec2Model ----
(***************************************************************************)
(* Model of translate/instantiate.py: the grounding stage that turns a     *)
(* lifted planning task plus a reachability model into ground actions,     *)
(* ground axioms, a ground goal and the reachable parameter bindings.      *)
(*                                                                         *)
(* Four specifications share the variables below:                          *)
(*   SpecTypes     get_objects_by_type applied to drawn type/object lists  *)
(*   SpecClassify  compute_fluent_and_static_predicates on drawn tasks     *)
(*   SpecDump      dump_static_atoms, one step per line of output          *)
(*   Spec          instantiate, called twice, one step per model fact      *)
(***************************************************************************)
EXTENDS Naturals, Sequences, FiniteSets, TLC

VARIABLES
    task,                        \* the lifted task handed to the function
    model,                       \* the reachability model (a list of facts)
    model2,                      \* the model handed to the second call
    vacuous,                     \* schema facts whose instantiation is empty
    pc,                          \* position in the running function
    run,                         \* which call of instantiate is running
    atom_index,                  \* position of `for atom in model`
    ret,                         \* return value of the function under test
    relaxed_reachable,
    fluent_facts,
    init_facts,
    init_assignments,
    type_to_objects,
    instantiated_actions,
    instantiated_axioms,
    reachable_action_parameters,
    contract_calls,              \* calls made to the instantiation contracts
    returned,                    \* the tuples returned by instantiate, per call
    static_predicates,
    initial_state_atoms,
    type_predicates,
    static_atoms_file            \* lines written to STATIC_ATOMS_FILE

vars == <<task, model, model2, vacuous, pc, run, atom_index, ret,
          relaxed_reachable, fluent_facts, init_facts, init_assignments,
          type_to_objects, instantiated_actions, instantiated_axioms,
          reachable_action_parameters, contract_calls, returned,
          static_predicates, initial_state_atoms, type_predicates,
          static_atoms_file>>

\* ------------------------------------------------------------------ bounds

\* longest reachability model drawn
MaxModel == 3
\* most action schemas in a task drawn for the classifier
MaxActions == 2
\* longest supertype list drawn for a type
MaxSupertypes == 2

\* ----------------------------------------------------------------- helpers

SeqToSet(s) == {s[i] : i \in DOMAIN s}

SeqsUpTo(S, n) == UNION {[1..k -> S] : k \in 0..n}

\* sequences without repetition (lists of distinct elements)
DistinctSeqsUpTo(S, n) ==
    {s \in SeqsUpTo(S, n) : \A i, j \in DOMAIN s : i # j => s[i] # s[j]}

Count(s, x) == Cardinality({i \in DOMAIN s : s[i] = x})

\* Python's seq[:n]
Prefix(s, n) == SubSeq(s, 1, IF n < Len(s) THEN n ELSE Len(s))

NoValue == [tag |-> "None"]

\* ------------------------------------------------------- typed-object index

\* defaultdict(list): the keys in insertion order and the list under each
EmptyDict == [keys |-> <<>>, val |-> <<>>]

\* result[key].append(name) on a defaultdict(list)
DefaultDictAppend(result, key, name) ==
    IF key \in DOMAIN result.val
        THEN [result EXCEPT !.val[key] = Append(@, name)]
        ELSE [keys |-> Append(result.keys, key),
              val |-> result.val @@ (key :> <<name>>)]

\* supertypes[type.name] = type.supertype_names, later entries overwriting
RECURSIVE SupertypesDict(_, _)
SupertypesDict(supertypes, types) ==
    IF types = <<>> THEN supertypes
    ELSE LET type == Head(types)
             rest == [n \in DOMAIN supertypes \ {type.name} |-> supertypes[n]]
         IN SupertypesDict(rest @@ (type.name :> type.supertype_names),
                           Tail(types))

\* for type in supertypes[obj.type_name]: result[type].append(obj.name)
RECURSIVE RegisterUnderSupertypes(_, _, _)
RegisterUnderSupertypes(result, names, obj_name) ==
    IF names = <<>> THEN result
    ELSE RegisterUnderSupertypes(
             DefaultDictAppend(result, Head(names), obj_name),
             Tail(names), obj_name)

\* for obj in typed_objects: ...   (a KeyError when the declared type of an
\* object is not in the type list, raised after the object was listed under it)
RECURSIVE RegisterObjects(_, _, _)
RegisterObjects(result, typed_objects, supertypes) ==
    IF typed_objects = <<>> THEN [ok |-> TRUE, result |-> result]
    ELSE LET obj == Head(typed_objects)
             own == DefaultDictAppend(result, obj.type_name, obj.name)
         IN IF obj.type_name \notin DOMAIN supertypes
                THEN [ok |-> FALSE, result |-> own]
                ELSE RegisterObjects(
                         RegisterUnderSupertypes(
                             own, supertypes[obj.type_name], obj.name),
                         Tail(typed_objects), supertypes)

get_objects_by_type(typed_objects, types) ==
    RegisterObjects(EmptyDict, typed_objects, SupertypesDict(<<>>, types))

\* reading a defaultdict(list) without inserting
Lookup(result, key) ==
    IF key \in DOMAIN result.val THEN result.val[key] ELSE <<>>

\* for obj in l: result.append("Atom %s(%s)" % (k, obj))
TypeAtomsOf(k, l) == [i \in DOMAIN l |-> <<"Atom", k, l[i]>>]

\* for k, l in types.items(): ...
RECURSIVE TypeAtoms(_, _)
TypeAtoms(keys, types) ==
    IF keys = <<>> THEN <<>>
    ELSE TypeAtomsOf(Head(keys), types.val[Head(keys)])
             \o TypeAtoms(Tail(keys), types)

add_type_predicates(types) == TypeAtoms(types.keys, types)

\* ------------------------------------------------------ predicate classifier

\* a variant that forgets the difference and keeps every predicate static
StaticNoDifference(all_predicates, fluent_predicates) == all_predicates

\* static_predicates = all_predicates - fluent_predicates
StaticPredicates(all_predicates, fluent_predicates) ==
    all_predicates \ fluent_predicates

\* the body of `for action in task.actions`; acc carries all_predicates and
\* fluent_predicates, and ok turns FALSE when the assertion on the
\* precondition fails
ClassifyAction(acc, action) ==
    LET eff == SeqToSet(action.effects)
        seen == [acc EXCEPT !.fluent_predicates = @ \cup eff,
                            !.all_predicates = @ \cup eff]
    IN IF action.precondition.kind = "Conjunction"
           THEN [seen EXCEPT !.all_predicates =
                                 @ \cup SeqToSet(action.precondition.parts)]
       ELSE IF action.precondition.kind = "Atom"
           THEN [seen EXCEPT !.all_predicates =
                                 @ \cup {action.precondition.parts[1]}]
       ELSE [seen EXCEPT !.ok = FALSE]

RECURSIVE ClassifyActions(_, _)
ClassifyActions(acc, actions) ==
    IF actions = <<>> \/ ~acc.ok THEN acc
    ELSE ClassifyActions(ClassifyAction(acc, Head(actions)), Tail(actions))

AxiomNames(axioms) == {axioms[i].name : i \in DOMAIN axioms}

compute_fluent_and_static_predicates(t) ==
    LET acc == ClassifyActions([ok |-> TRUE, all_predicates |-> {},
                                fluent_predicates |-> {}], t.actions)
        fluent == acc.fluent_predicates \cup AxiomNames(t.axioms)
    IN [ok |-> acc.ok,
        fluent_predicates |-> fluent,
        static_predicates |-> StaticPredicates(acc.all_predicates, fluent)]

\* ------------------------------------------------------------- the tasks

Objects == {"a", "b"}

Atom(predicate, args) == [tag |-> "pred", predicate |-> predicate, args |-> args]

Assign(fluent, expression) ==
    [tag |-> "assign", fluent |-> fluent, expression |-> expression]

Conjunction(parts) == [kind |-> "Conjunction", parts |-> parts]

\* Two action schemas that display the same name (one schema split by
\* normalization); `id` stands for the identity of the Python object.
ActionA1 ==
    [id |-> "A1", name |-> "move", parameters |-> <<"?x", "?y">>,
     precondition |-> Conjunction(<<"q", "d">>), effects |-> <<"p">>]

ActionA2 ==
    [id |-> "A2", name |-> "move", parameters |-> <<"?x">>,
     precondition |-> [kind |-> "Atom", parts |-> <<"q">>],
     effects |-> <<"p">>]

\* an action whose precondition is a single negative literal
ActionA3 ==
    [id |-> "A3", name |-> "stay", parameters |-> <<"?x">>,
     precondition |-> [kind |-> "NegatedAtom", parts |-> <<"q">>],
     effects |-> <<"p">>]

ActionA4 ==
    [id |-> "A4", name |-> "load", parameters |-> <<>>,
     precondition |-> Conjunction(<<>>), effects |-> <<"q", "p">>]

\* Two axiom schemas deriving the same predicate d
AxiomX1 == [id |-> "X1", name |-> "d", parameters |-> <<"?x">>, body |-> "q"]

AxiomX2 == [id |-> "X2", name |-> "d", parameters |-> <<"?x">>, body |-> "p"]

\* an axiom whose derived predicate no action mentions
AxiomX3 == [id |-> "X3", name |-> "e", parameters |-> <<>>, body |-> "p"]

Types ==
    <<[name |-> "object", supertype_names |-> <<>>],
      [name |-> "block", supertype_names |-> <<"object">>]>>

TypedObjects ==
    <<[name |-> "a", type_name |-> "block"],
      [name |-> "b", type_name |-> "block"]>>

InitialState ==
    <<Atom("q", <<"a">>), Atom("p", <<"b">>), Assign("total-cost", 0)>>

\* the goals drawn: a negative static literal that the initial state
\* refutes, and a goal whose negative literal is over a fluent predicate
Goals ==
    {<<[negated |-> TRUE, atom |-> Atom("q", <<"a">>)]>>,
     <<[negated |-> FALSE, atom |-> Atom("q", <<"a">>)],
       [negated |-> TRUE, atom |-> Atom("p", <<"b">>)]>>}

BaseTask ==
    [actions |-> <<ActionA1, ActionA2>>,
     axioms |-> <<AxiomX1, AxiomX2>>,
     init |-> InitialState,
     goal |-> <<>>,
     objects |-> TypedObjects,
     types |-> Types,
     use_min_cost_metric |-> FALSE]

\* ---------------------------------- state of the functions that are not running

InstantiateIdle ==
    /\ model2 = <<>>
    /\ vacuous = {}
    /\ run = 0
    /\ relaxed_reachable = FALSE
    /\ fluent_facts = {}
    /\ init_facts = {}
    /\ init_assignments = <<>>
    /\ type_to_objects = EmptyDict
    /\ instantiated_actions = <<>>
    /\ instantiated_axioms = <<>>
    /\ reachable_action_parameters = EmptyDict
    /\ contract_calls = <<>>
    /\ returned = <<>>

DumpIdle ==
    /\ atom_index = 0
    /\ static_predicates = {}
    /\ initial_state_atoms = {}
    /\ type_predicates = <<>>
    /\ static_atoms_file = <<>>

instantiate_vars ==
    <<model2, vacuous, run, relaxed_reachable, fluent_facts, init_facts,
      init_assignments, type_to_objects, instantiated_actions,
      instantiated_axioms, reachable_action_parameters, contract_calls,
      returned>>

dump_vars ==
    <<static_predicates, initial_state_atoms, type_predicates,
      static_atoms_file>>

\* ----------------------------------------- SpecTypes: get_objects_by_type

\* the type lists drawn: block's list of ancestors is any list over the
\* other type names
TypeLists ==
    {<<[name |-> "object", supertype_names |-> <<>>],
       [name |-> "thing", supertype_names |-> <<"object">>],
       [name |-> "block", supertype_names |-> sup]>> :
         sup \in SeqsUpTo({"object", "thing"}, MaxSupertypes)}

\* the object lists drawn: distinct object names, each of a declared type
\* or of a type ("ghost") that the type list does not hold
TypedObjectLists ==
    {l \in SeqsUpTo([name : Objects, type_name : {"block", "thing", "ghost"}],
                    Cardinality(Objects)) :
        \A i, j \in DOMAIN l : i # j => l[i].name # l[j].name}

InitTypes ==
    /\ task \in {[BaseTask EXCEPT !.types = tl, !.objects = ol] :
                    tl \in TypeLists, ol \in TypedObjectLists}
    /\ model = <<>>
    /\ pc = "call"
    /\ ret = NoValue
    /\ InstantiateIdle
    /\ DumpIdle

CallGetObjectsByType ==
    /\ pc = "call"
    /\ ret' = get_objects_by_type(task.objects, task.types)
    /\ pc' = IF ret'.ok THEN "returned" ELSE "KeyError"
    /\ UNCHANGED <<task, model, atom_index, instantiate_vars, dump_vars>>

NextTypes == CallGetObjectsByType

SpecTypes == InitTypes /\ [][NextTypes]_vars

\* -------------------- SpecClassify: compute_fluent_and_static_predicates

ClassifyTasks ==
    {[BaseTask EXCEPT !.actions = al, !.axioms = xl] :
        al \in SeqsUpTo({ActionA1, ActionA2, ActionA3, ActionA4}, MaxActions),
        xl \in {<<>>, <<AxiomX1>>, <<AxiomX3>>, <<AxiomX1, AxiomX3>>}}

InitClassify ==
    /\ task \in ClassifyTasks
    /\ model = <<>>
    /\ pc = "call"
    /\ ret = NoValue
    /\ InstantiateIdle
    /\ DumpIdle

CallComputeFluentAndStatic ==
    /\ pc = "call"
    /\ ret' = compute_fluent_and_static_predicates(task)
    /\ pc' = IF ret'.ok THEN "returned" ELSE "AssertionError"
    /\ UNCHANGED <<task, model, atom_index, instantiate_vars, dump_vars>>

NextClassify == CallComputeFluentAndStatic

SpecClassify == InitClassify /\ [][NextClassify]_vars

\* the predicates some action precondition or action effect refers to
ReferencedByActions(t) ==
    UNION {SeqToSet(t.actions[i].effects)
               \cup SeqToSet(t.actions[i].precondition.parts) :
           i \in DOMAIN t.actions}

\* C1 as stated: the two returned sets are disjoint and their union is exactly
\* the set of predicates referenced by some action precondition or effect.
C1_UnionIsActionPredicates ==
    pc = "returned" =>
        /\ ret.fluent_predicates \cap ret.static_predicates = {}
        /\ ret.fluent_predicates \cup ret.static_predicates
               = ReferencedByActions(task)

\* C1 amended: whenever the classifier returns, the two sets are disjoint and
\* their union is the set of predicates referenced by some action
\* precondition or effect together with the names of all axiom schemas;
\* static is that union without the effect predicates and the axiom names.
C1_PartitionWithAxiomNames ==
    pc = "returned" =>
        /\ ret.fluent_predicates \cap ret.static_predicates = {}
        /\ ret.fluent_predicates \cup ret.static_predicates
               = ReferencedByActions(task) \cup AxiomNames(task.axioms)
        /\ \A p \in ReferencedByActions(task) \cup AxiomNames(task.axioms) :
               p \in ret.fluent_predicates
                   <=> \/ p \in AxiomNames(task.axioms)
                       \/ \E i \in DOMAIN task.actions :
                              p \in SeqToSet(task.actions[i].effects)

\* a returned classification with a static predicate, an effect predicate and
\* an axiom name that no action mentions
C1_Witness ==
    /\ pc = "returned"
    /\ ret.static_predicates # {}
    /\ "p" \in ret.fluent_predicates
    /\ "e" \in ret.fluent_predicates \ ReferencedByActions(task)

\* C2 as stated: every object of declared type T is listed exactly once under
\* T and under every ancestor type listed for T.
C2_ListedExactlyOnce ==
    pc = "returned" =>
        \A i \in DOMAIN task.objects :
            LET obj == task.objects[i]
                sup == SupertypesDict(<<>>, task.types)[obj.type_name]
            IN \A ty \in {obj.type_name} \cup SeqToSet(sup) :
                   Count(Lookup(ret.result, ty), obj.name) = 1

\* ------------------------------------------------ instantiate: helpers

\* get_fluent_facts: the model facts whose predicate is an effect predicate
\* or an axiom name (a schema object or the sentinel never is one)
EffectPredicates(actions) ==
    UNION {SeqToSet(actions[i].effects) : i \in DOMAIN actions}

get_fluent_facts(t, m) ==
    LET fluent_predicates == EffectPredicates(t.actions) \cup AxiomNames(t.axioms)
    IN {m[i] : i \in {j \in DOMAIN m : /\ m[j].tag = "pred"
                                        /\ m[j].predicate \in fluent_predicates}}

\* for element in task.init: the Assign elements go to init_assignments
InitFacts(init) == {init[i] : i \in {j \in DOMAIN init : init[j].tag # "assign"}}

\* init_assignments[element.fluent] = element.expression, the last one winning
InitAssignments(init) ==
    LET idx == {j \in DOMAIN init : init[j].tag = "assign"}
    IN [f \in {init[j].fluent : j \in idx} |->
           init[CHOOSE j \in idx : /\ init[j].fluent = f
                                   /\ \A k \in idx : init[k].fluent = f => k <= j
               ].expression]

\* the schema object a model fact carries in its predicate slot
SchemaOf(t, atom) ==
    CHOOSE s \in SeqToSet(t.actions) \cup SeqToSet(t.axioms) :
        s.id = atom.predicate

\* a variant whose first test accepts axiom schemas as well
DispatchAxiomAsAction(atom) ==
    IF atom.tag \in {"action", "axiom"} THEN "action"
    ELSE IF atom.predicate = "@goal-reachable" THEN "sentinel"
    ELSE "other"

\* the isinstance chain of the loop body
Dispatch(atom) ==
    IF atom.tag = "action" THEN "action"
    ELSE IF atom.tag = "axiom" THEN "axiom"
    ELSE IF atom.predicate = "@goal-reachable" THEN "sentinel"
    ELSE "other"

\* {par.name: arg for par, arg in zip(parameters, atom.args)}
VariableMapping(parameters, args) ==
    LET n == IF Len(parameters) < Len(args) THEN Len(parameters) ELSE Len(args)
    IN [name \in {parameters[i] : i \in 1..n} |->
           args[CHOOSE i \in 1..n : /\ parameters[i] = name
                                    /\ \A j \in 1..n :
                                           parameters[j] = name => j <= i]]

\* a variant that keys the map by action.name
KeyByName(action) == action.name

\* the key of reachable_action_parameters: the action object itself
BindingKey(action) == action.id

\* a variant that keeps one list across calls (a module-level list)
LeftoverList == instantiated_actions

\* instantiated_actions = [] at the start of every call
NewList == <<>>

\* a variant without the test on the result
AppendAlways(list, inst) == Append(list, inst)

\* if inst_action: instantiated_actions.append(inst_action)
AppendIfTruthy(list, inst) == IF inst # NoValue THEN Append(list, inst) ELSE list

\* The instantiation contracts of the schema classes (pddl.Action.instantiate,
\* pddl.Axiom.instantiate): a deterministic function of the schema and the
\* substitution that yields a ground object or nothing.  The initial facts,
\* assignments, fluent facts, typed-object index and the cost flag are fixed
\* during a call; `vacuous` holds the (schema, substitution) pairs that the
\* static facts prune.
BoundArgs(schema, variable_mapping) ==
    LET n == Cardinality({i \in DOMAIN schema.parameters :
                              schema.parameters[i] \in DOMAIN variable_mapping})
    IN [i \in 1..n |-> variable_mapping[schema.parameters[i]]]

ContractCall(schema, variable_mapping) ==
    [schema |-> schema.id, variable_mapping |-> variable_mapping]

ActionInstantiate(action, variable_mapping) ==
    IF ContractCall(action, variable_mapping) \in vacuous THEN NoValue
    ELSE [tag |-> "PropositionalAction", schema |-> action.id,
          name |-> <<action.name>> \o BoundArgs(action, variable_mapping)]

AxiomInstantiate(axiom, variable_mapping) ==
    IF ContractCall(axiom, variable_mapping) \in vacuous THEN NoValue
    ELSE [tag |-> "PropositionalAxiom", name |-> axiom.name,
          condition |-> <<axiom.body>> \o BoundArgs(axiom, variable_mapping),
          effect |-> <<axiom.name>> \o BoundArgs(axiom, variable_mapping)]

\* The condition contract (goal.instantiate): a negative literal whose atom is
\* no fluent fact and is an initial fact raises Impossible; every other
\* literal is appended to result.
Refuted(literal, init, fluent) ==
    /\ literal.negated
    /\ literal.atom \notin fluent
    /\ literal.atom \in init

RECURSIVE ConditionInstantiate(_, _, _, _)
ConditionInstantiate(goal, init, fluent, result) ==
    IF goal = <<>> THEN [impossible |-> FALSE, result |-> result]
    ELSE IF Refuted(Head(goal), init, fluent)
        THEN [impossible |-> TRUE, result |-> result]
    ELSE ConditionInstantiate(Tail(goal), init, fluent,
                              Append(result, Head(goal)))

\* a variant whose except clause falls through to `return result`
instantiate_goal_keeps_result(goal, init, fluent) ==
    [tag |-> "list", items |-> ConditionInstantiate(goal, init, fluent, <<>>).result]

\* try: goal.instantiate(...) / except Impossible: return None / return result
instantiate_goal(goal, init, fluent) ==
    LET r == ConditionInstantiate(goal, init, fluent, <<>>)
    IN IF r.impossible THEN NoValue
       ELSE [tag |-> "list", items |-> r.result]

\* The comparison of ground axioms (PropositionalAxiom.__lt__): by the tuple
\* (name, condition, effect), strings in alphabetical order.
Alphabet == <<"a", "b", "d", "e", "p", "q">>

Rank(str) == CHOOSE i \in DOMAIN Alphabet : Alphabet[i] = str

RECURSIVE ListLess(_, _)
ListLess(s, t) ==
    IF t = <<>> THEN FALSE
    ELSE IF s = <<>> THEN TRUE
    ELSE IF Rank(Head(s)) # Rank(Head(t)) THEN Rank(Head(s)) < Rank(Head(t))
    ELSE ListLess(Tail(s), Tail(t))

AxiomLess(x, y) ==
    \/ Rank(x.name) < Rank(y.name)
    \/ /\ x.name = y.name
       /\ \/ ListLess(x.condition, y.condition)
          \/ /\ x.condition = y.condition
             /\ ListLess(x.effect, y.effect)

\* sorted(): stable, an element goes behind the elements it is not less than
RECURSIVE InsertSorted(_, _)
InsertSorted(list, x) ==
    IF list = <<>> THEN <<x>>
    ELSE IF AxiomLess(x, Head(list)) THEN <<x>> \o list
    ELSE <<Head(list)>> \o InsertSorted(Tail(list), x)

RECURSIVE SortFrom(_, _)
SortFrom(done, list) ==
    IF list = <<>> THEN done
    ELSE SortFrom(InsertSorted(done, Head(list)), Tail(list))

\* a variant that returns the list as accumulated
Unsorted(list) == list

sorted(list) == SortFrom(<<>>, list)

\* ----------------------------------------------------- Spec: instantiate

SchemaFact(tag, schema, args) == [tag |-> tag, predicate |-> schema.id, args |-> args]

\* The facts a model is drawn from: action facts with exactly the schema's
\* arguments, with a trailing bookkeeping argument and with an argument
\* missing, two axiom facts, the sentinel and an ordinary fluent fact.
ModelFacts ==
    {SchemaFact("action", ActionA1, <<"a", "b">>),
     SchemaFact("action", ActionA2, <<"b", "a">>),
     SchemaFact("action", ActionA1, <<"a">>),
     SchemaFact("axiom", AxiomX1, <<"b">>),
     SchemaFact("axiom", AxiomX2, <<"a">>),
     Atom("@goal-reachable", <<>>),
     Atom("p", <<"b">>)}

\* the same facts in another iteration order: two neighbours exchanged
SwapAt(m, k) ==
    [i \in DOMAIN m |-> IF i = k THEN m[k + 1] ELSE IF i = k + 1 THEN m[k] ELSE m[i]]

Reorderings(m) == {m} \cup {SwapAt(m, k) : k \in 1..Len(m) - 1}

\* the outcomes of the instantiation contracts that are drawn
VacuousChoices ==
    SUBSET {ContractCall(ActionA2, VariableMapping(<<"?x">>, <<"b">>)),
            ContractCall(AxiomX1, VariableMapping(<<"?x">>, <<"b">>))}

Init ==
    /\ task \in {[BaseTask EXCEPT !.goal = g] : g \in Goals}
    /\ model \in DistinctSeqsUpTo(ModelFacts, MaxModel)
    /\ model2 \in Reorderings(model)
    /\ vacuous \in VacuousChoices
    /\ pc = "start"
    /\ run = 1
    /\ ret = NoValue
    /\ relaxed_reachable = FALSE
    /\ fluent_facts = {}
    /\ init_facts = {}
    /\ init_assignments = <<>>
    /\ type_to_objects = EmptyDict
    /\ instantiated_actions = <<>>
    /\ instantiated_axioms = <<>>
    /\ reachable_action_parameters = EmptyDict
    /\ contract_calls = <<>>
    /\ returned = <<>>
    /\ DumpIdle

\* the model the running call was given
CurrentModel == IF run = 1 THEN model ELSE model2

\* lines 137-151: everything before the loop
StartInstantiate ==
    /\ pc = "start"
    /\ relaxed_reachable' = FALSE
    /\ fluent_facts' = get_fluent_facts(task, CurrentModel)
    /\ init_facts' = InitFacts(task.init)
    /\ init_assignments' = InitAssignments(task.init)
    /\ type_to_objects' = get_objects_by_type(task.objects, task.types).result
    /\ instantiated_actions' = NewList
    /\ instantiated_axioms' = <<>>
    /\ reachable_action_parameters' = EmptyDict
    /\ atom_index' = 1
    /\ pc' = "loop"
    /\ UNCHANGED <<task, model, model2, vacuous, run, ret, contract_calls,
                   returned, dump_vars>>

InLoop ==
    /\ pc = "loop"
    /\ atom_index <= Len(CurrentModel)

loop_frame ==
    <<task, model, model2, vacuous, run, ret, pc, fluent_facts, init_facts,
      init_assignments, type_to_objects, returned, dump_vars>>

\* lines 153-170: a fact whose predicate is an action schema
ActionFact ==
    /\ InLoop
    /\ Dispatch(CurrentModel[atom_index]) = "action"
    /\ LET atom == CurrentModel[atom_index]
           action == SchemaOf(task, atom)
           parameters == action.parameters
           inst_parameters == Prefix(atom.args, Len(parameters))
           variable_mapping == VariableMapping(parameters, atom.args)
           inst_action == ActionInstantiate(action, variable_mapping)
       IN /\ reachable_action_parameters' =
                 DefaultDictAppend(reachable_action_parameters,
                                   BindingKey(action), inst_parameters)
          /\ contract_calls' =
                 Append(contract_calls, ContractCall(action, variable_mapping))
          /\ instantiated_actions' =
                 AppendIfTruthy(instantiated_actions, inst_action)
    /\ atom_index' = atom_index + 1
    /\ UNCHANGED <<loop_frame, relaxed_reachable, instantiated_axioms>>

\* lines 171-177: a fact whose predicate is an axiom schema
AxiomFact ==
    /\ InLoop
    /\ Dispatch(CurrentModel[atom_index]) = "axiom"
    /\ LET atom == CurrentModel[atom_index]
           axiom == SchemaOf(task, atom)
           variable_mapping == VariableMapping(axiom.parameters, atom.args)
           inst_axiom == AxiomInstantiate(axiom, variable_mapping)
       IN /\ contract_calls' =
                 Append(contract_calls, ContractCall(axiom, variable_mapping))
          /\ instantiated_axioms' =
                 AppendIfTruthy(instantiated_axioms, inst_axiom)
    /\ atom_index' = atom_index + 1
    /\ UNCHANGED <<loop_frame, relaxed_reachable, instantiated_actions,
                   reachable_action_parameters>>

\* lines 178-179: the sentinel fact
SentinelFact ==
    /\ InLoop
    /\ Dispatch(CurrentModel[atom_index]) = "sentinel"
    /\ relaxed_reachable' = TRUE
    /\ atom_index' = atom_index + 1
    /\ UNCHANGED <<loop_frame, instantiated_actions, instantiated_axioms,
                   reachable_action_parameters, contract_calls>>

\* a fact of an ordinary predicate: no branch of the loop body takes it
OtherFact ==
    /\ InLoop
    /\ Dispatch(CurrentModel[atom_index]) = "other"
    /\ atom_index' = atom_index + 1
    /\ UNCHANGED <<loop_frame, relaxed_reachable, instantiated_actions,
                   instantiated_axioms, reachable_action_parameters,
                   contract_calls>>

\* lines 181-185: the goal, the sort and the returned tuple
ReturnInstantiate ==
    /\ pc = "loop"
    /\ atom_index > Len(CurrentModel)
    /\ returned' = Append(returned,
           [relaxed_reachable |-> relaxed_reachable,
            fluent_facts |-> fluent_facts,
            instantiated_actions |-> instantiated_actions,
            instantiated_goal |->
                instantiate_goal(task.goal, init_facts, fluent_facts),
            instantiated_axioms |-> sorted(instantiated_axioms),
            reachable_action_parameters |-> reachable_action_parameters])
    /\ IF run = 1
           THEN run' = run + 1 /\ pc' = "start"
           ELSE run' = run /\ pc' = "done"
    /\ UNCHANGED <<task, model, model2, vacuous, ret, atom_index,
                   relaxed_reachable, fluent_facts, init_facts,
                   init_assignments, type_to_objects, instantiated_actions,
                   instantiated_axioms, reachable_action_parameters,
                   contract_calls, dump_vars>>

Next ==
    \/ StartInstantiate
    \/ ActionFact
    \/ AxiomFact
    \/ SentinelFact
    \/ OtherFact
    \/ ReturnInstantiate

Spec == Init /\ [][Next]_vars

\* ------------------------------------------- what a call is expected to return

\* the model the r-th call was given
ModelOfCall(r) == IF r = 1 THEN model ELSE model2

\* a schema fact with fewer arguments than its schema has parameters
IsShortFact(t, atom) ==
    /\ atom.tag \in {"action", "axiom"}
    /\ Len(atom.args) < Len(SchemaOf(t, atom).parameters)

\* the first-P-argument tuples of the facts of one schema, in model order
RECURSIVE BindingsIn(_, _)
BindingsIn(schema, m) ==
    IF m = <<>> THEN <<>>
    ELSE (IF Head(m).tag \in {"action", "axiom"} /\ Head(m).predicate = schema.id
             THEN <<Prefix(Head(m).args, Len(schema.parameters))>>
             ELSE <<>>) \o BindingsIn(schema, Tail(m))

\* the results of the action contract over the action facts, in model order
RECURSIVE ActionResults(_, _)
ActionResults(t, m) ==
    IF m = <<>> THEN <<>>
    ELSE (IF Head(m).tag = "action"
             THEN <<ActionInstantiate(
                        SchemaOf(t, Head(m)),
                        VariableMapping(SchemaOf(t, Head(m)).parameters,
                                        Head(m).args))>>
             ELSE <<>>) \o ActionResults(t, Tail(m))

\* the results of the axiom contract over the axiom facts, in model order
RECURSIVE AxiomResults(_, _)
AxiomResults(t, m) ==
    IF m = <<>> THEN <<>>
    ELSE (IF Head(m).tag = "axiom"
             THEN <<AxiomInstantiate(
                        SchemaOf(t, Head(m)),
                        VariableMapping(SchemaOf(t, Head(m)).parameters,
                                        Head(m).args))>>
             ELSE <<>>) \o AxiomResults(t, Tail(m))

NonEmpty(results) == SelectSeq(results, LAMBDA x : x # NoValue)

GoalRefuted(t, m) ==
    \E i \in DOMAIN t.goal :
        Refuted(t.goal[i], InitFacts(t.init), get_fluent_facts(t, m))

\* ----------------------------------------------- properties of instantiate

\* C3 as stated: a schema fact with fewer arguments than the schema has
\* parameters aborts the run: no shortened binding is recorded, no
\* instantiation is called with a partial substitution, nothing is returned.
C3_ShortFactAborts ==
    /\ \A key \in DOMAIN reachable_action_parameters.val :
           \A i \in DOMAIN reachable_action_parameters.val[key] :
               \A a \in SeqToSet(task.actions) :
                   BindingKey(a) = key =>
                       Len(reachable_action_parameters.val[key][i])
                           = Len(a.parameters)
    /\ \A i \in DOMAIN contract_calls :
           \A s \in SeqToSet(task.actions) \cup SeqToSet(task.axioms) :
               s.id = contract_calls[i].schema =>
                   DOMAIN contract_calls[i].variable_mapping
                       = SeqToSet(s.parameters)
    /\ \A r \in DOMAIN returned :
           \A k \in DOMAIN ModelOfCall(r) : ~IsShortFact(task, ModelOfCall(r)[k])

\* C4: the returned reachable-bindings map holds, for each action schema
\* object, exactly the first-P-argument tuples of that schema's facts in
\* model order, whatever the instantiation returned, and schemas that share
\* a name keep separate entries.
C4_BindingsPerSchemaObject ==
    \A r \in DOMAIN returned :
        \A a \in SeqToSet(task.actions) :
            Lookup(returned[r].reachable_action_parameters, a.id)
                = BindingsIn(a, ModelOfCall(r))

\* both schemas named "move" have a fact, the one of A2 instantiates to
\* nothing, and each has its own binding list
C4_Witness ==
    /\ Len(returned) >= 1
    /\ ContractCall(ActionA2, VariableMapping(<<"?x">>, <<"b">>)) \in vacuous
    /\ Lookup(returned[1].reachable_action_parameters, "A1") = <<<<"a", "b">>>>
    /\ Lookup(returned[1].reachable_action_parameters, "A2") = <<<<"b">>>>

\* C5: the returned ground-action list is the sequence of non-empty results
\* of the action contract over the action facts, in model order.
C5_ActionsInModelOrder ==
    \A r \in DOMAIN returned :
        returned[r].instantiated_actions
            = NonEmpty(ActionResults(task, ModelOfCall(r)))

\* a model with two action facts and a fact of another kind, one action fact
\* pruned by the contract: one ground action comes back
C5_Witness ==
    /\ Len(returned) >= 1
    /\ Len(NonEmpty(ActionResults(task, model))) = 1
    /\ Len(ActionResults(task, model)) = 2
    /\ \E k \in DOMAIN model : model[k].tag # "action"
    /\ Len(returned[1].instantiated_actions) = 1

\* C6: when a goal literal is statically refuted the goal slot of the
\* returned tuple is None and the other slots are what they are otherwise;
\* when none is refuted the goal slot is the list of the goal literals.
C6_GoalImpossibleIsAValue ==
    \A r \in DOMAIN returned :
        LET m == ModelOfCall(r) IN
        /\ returned[r].relaxed_reachable
               = (\E k \in DOMAIN m : m[k] = Atom("@goal-reachable", <<>>))
        /\ returned[r].fluent_facts = get_fluent_facts(task, m)
        /\ returned[r].instantiated_actions = NonEmpty(ActionResults(task, m))
        /\ IF GoalRefuted(task, m)
               THEN returned[r].instantiated_goal = NoValue
               ELSE returned[r].instantiated_goal
                        = [tag |-> "list", items |-> task.goal]

\* an impossible goal whose second literal is the refuted one, returned with
\* a ground action and the flag
C6_Witness ==
    /\ Len(returned) >= 1
    /\ Len(task.goal) > 1
    /\ returned[1].instantiated_goal = NoValue
    /\ returned[1].instantiated_actions # <<>>
    /\ returned[1].relaxed_reachable

IsSortedAxioms(list) ==
    \A i, j \in DOMAIN list : i < j => ~AxiomLess(list[j], list[i])

\* C8: the returned axiom list is a permutation of the non-empty results of
\* the axiom contract over the axiom facts, in non-decreasing order, and a
\* model with the same facts in another order yields the same list.
C8_AxiomsSortedPermutation ==
    /\ \A r \in DOMAIN returned :
           LET want == NonEmpty(AxiomResults(task, ModelOfCall(r)))
               got == returned[r].instantiated_axioms
           IN /\ IsSortedAxioms(got)
              /\ Len(got) = Len(want)
              /\ \A x \in SeqToSet(got) \cup SeqToSet(want) :
                     Count(got, x) = Count(want, x)
    /\ Len(returned) = 2 =>
           returned[1].instantiated_axioms = returned[2].instantiated_axioms

\* two axiom facts that the two calls meet in opposite orders
C8_Witness ==
    /\ Len(returned) = 2
    /\ Len(returned[1].instantiated_axioms) = 2
    /\ NonEmpty(AxiomResults(task, model)) # NonEmpty(AxiomResults(task, model2))
    /\ NonEmpty(AxiomResults(task, model)) # returned[1].instantiated_axioms

\* C9: two calls on the same task and model return the same ground actions,
\* the same sorted axioms and the same goal, and no step changes the task
\* or the model.
C9_SameResultTwice ==
    /\ [](Len(returned) = 2 /\ model2 = model =>
             /\ returned[1].instantiated_actions = returned[2].instantiated_actions
             /\ returned[1].instantiated_axioms = returned[2].instantiated_axioms
             /\ returned[1].instantiated_goal = returned[2].instantiated_goal)
    /\ [][task' = task /\ model' = model /\ model2' = model2]_vars

\* both calls returned on the same model, with ground actions and axioms
C9_Witness ==
    /\ Len(returned) = 2
    /\ model2 = model
    /\ returned[2].instantiated_actions # <<>>
    /\ returned[2].instantiated_axioms # <<>>

AtomStr(atom) == <<"Atom", atom.predicate>> \o atom.args

\* print_atom: the text behind "Atom ", blanks removed, as one line
print_atom(atom_name) == Tail(atom_name)

\* a variant without the assertion
AlwaysInInitialState(atom, atoms) == TRUE

\* assert atom in initial_state_atoms
InInitialState(atom, atoms) == atom \in atoms

\* the facts a model is drawn from here: facts of the static predicate q, of
\* the fluent predicate p, an action fact and the sentinel
DumpModelFacts ==
    {Atom("q", <<"a">>), Atom("q", <<"b">>), Atom("p", <<"a">>),
     Atom("p", <<"b">>), SchemaFact("action", ActionA1, <<"a", "b">>),
     Atom("@goal-reachable", <<>>)}

DumpTasks ==
    {[BaseTask EXCEPT !.actions = al, !.init = il, !.objects = ol] :
        al \in {<<ActionA1, ActionA2>>, <<ActionA1, ActionA3>>},
        il \in {InitialState,
                <<Atom("q", <<"a">>), Atom("q", <<"b">>)>>,
                <<Atom("p", <<"b">>), Assign("total-cost", 0)>>},
        ol \in {TypedObjects, <<[name |-> "a", type_name |-> "ghost"]>>}}

InitDump ==
    /\ task \in DumpTasks
    /\ model \in DistinctSeqsUpTo(DumpModelFacts, MaxModel)
    /\ pc = "start"
    /\ ret = NoValue
    /\ InstantiateIdle
    /\ DumpIdle

\* lines 82-86: the typed-object index, the type atoms, the classification,
\* the set of initial-state elements; the file is opened empty
StartDump ==
    /\ pc = "start"
    /\ LET types == get_objects_by_type(task.objects, task.types)
           classes == compute_fluent_and_static_predicates(task)
       IN IF ~types.ok
              THEN /\ pc' = "KeyError"
                   /\ UNCHANGED <<atom_index, dump_vars>>
          ELSE IF ~classes.ok
              THEN /\ pc' = "AssertionError"
                   /\ type_predicates' = add_type_predicates(types.result)
                   /\ UNCHANGED <<atom_index, static_predicates,
                                  initial_state_atoms, static_atoms_file>>
          ELSE /\ pc' = "loop"
               /\ type_predicates' = add_type_predicates(types.result)
               /\ static_predicates' = classes.static_predicates
               /\ initial_state_atoms' = SeqToSet(task.init)
               /\ static_atoms_file' = <<>>
               /\ atom_index' = 1
    /\ UNCHANGED <<task, model, ret, instantiate_vars>>

IsStaticAtom(atom) ==
    /\ atom.tag = "pred"
    /\ atom.predicate \in static_predicates

\* lines 88-90: a model fact of a static predicate that is an initial fact
DumpStaticAtom ==
    /\ pc = "loop"
    /\ atom_index <= Len(model)
    /\ IsStaticAtom(model[atom_index])
    /\ InInitialState(model[atom_index], initial_state_atoms)
    /\ static_atoms_file' =
           Append(static_atoms_file, print_atom(AtomStr(model[atom_index])))
    /\ atom_index' = atom_index + 1
    /\ UNCHANGED <<task, model, ret, pc, instantiate_vars, static_predicates,
                   initial_state_atoms, type_predicates>>

\* line 89: the assertion fails
DumpAssertionFails ==
    /\ pc = "loop"
    /\ atom_index <= Len(model)
    /\ IsStaticAtom(model[atom_index])
    /\ ~InInitialState(model[atom_index], initial_state_atoms)
    /\ pc' = "AssertionError"
    /\ UNCHANGED <<task, model, ret, atom_index, instantiate_vars, dump_vars>>

\* line 88: a model fact whose predicate is not static
DumpSkipAtom ==
    /\ pc = "loop"
    /\ atom_index <= Len(model)
    /\ ~IsStaticAtom(model[atom_index])
    /\ atom_index' = atom_index + 1
    /\ UNCHANGED <<task, model, ret, pc, instantiate_vars, dump_vars>>

\* lines 91-92: the type atoms, after the model facts
DumpTypePredicates ==
    /\ pc = "loop"
    /\ atom_index > Len(model)
    /\ static_atoms_file' =
           static_atoms_file
               \o [i \in DOMAIN type_predicates |-> print_atom(type_predicates[i])]
    /\ pc' = "returned"
    /\ UNCHANGED <<task, model, ret, atom_index, instantiate_vars,
                   static_predicates, initial_state_atoms, type_predicates>>

NextDump ==
    \/ StartDump
    \/ DumpStaticAtom
    \/ DumpAssertionFails
    \/ DumpSkipAtom
    \/ DumpTypePredicates

SpecDump == InitDump /\ [][NextDump]_vars

\* a predicate that an action refers to, that no effect changes and that no
\* axiom derives
ClassifiedStatic(t, predicate) ==
    /\ predicate \in ReferencedByActions(t)
    /\ predicate \notin EffectPredicates(t.actions) \cup AxiomNames(t.axioms)

\* a model fact of a static predicate that the initial state does not hold
StaticFactMissing(t, m) ==
    \E k \in DOMAIN m :
        /\ m[k].tag = "pred"
        /\ ClassifiedStatic(t, m[k].predicate)
        /\ \A i \in DOMAIN t.init : t.init[i] # m[k]

\* the lines of the model facts of static predicates, in model order
StaticLines(t, m) ==
    LET facts == SelectSeq(m, LAMBDA f : /\ f.tag = "pred"
                                         /\ ClassifiedStatic(t, f.predicate))
    IN [i \in DOMAIN facts |-> <<facts[i].predicate>> \o facts[i].args]

Finished == pc \in {"returned", "AssertionError", "KeyError"}

PreconditionUnclassifiable(t) ==
    \E i \in DOMAIN t.actions :
        t.actions[i].precondition.kind \notin {"Conjunction", "Atom"}

UnknownObjectType(t) ==
    \E i \in DOMAIN t.objects :
        \A j \in DOMAIN t.types : t.types[j].name # t.objects[i].type_name

====
